---- MODULE Spec2Model ----
(***************************************************************************)
(* Model of the Simple-Transaction-Manager: the fixed-precision Decimal    *)
(* (src/src/decimal.rs), the per-client account (src/src/client.rs), the   *)
(* transaction ledger (src/src/transaction_set.rs) and the event handler   *)
(* process_transaction (src/src/main.rs).                                  *)
(***************************************************************************)
EXTENDS Integers, Sequences, FiniteSets, TLC

\* ------------------------------------------------------------------------
\* Bounds of the model
\* ------------------------------------------------------------------------
\* Number of events fed to process_transaction in one run.
MaxEvents == 4

\* Number of events in one run on well-formed input.
MaxUniqueEvents == 5

\* Client ids and transaction ids carried by the events.
ClientIds == {1, 2}
TxIds == {1, 2}

\* ------------------------------------------------------------------------
\* decimal.rs
\* ------------------------------------------------------------------------
PRECISION == 4

\* 10u16.pow(PRECISION as u32)
Pow10 == 10 ^ PRECISION

\* struct Decimal { dollars: u64, cents: u16 }
\* A u64 is written as an integer congruent to it modulo 2^64: n >= 0 stands
\* for n itself and n < 0 for 2^64 + n, so that -1 is u64::MAX.  Wrapping
\* addition and subtraction are then the integer operations.
Decimal(d, c) == [dollars |-> d, cents |-> c]

\* u16 arithmetic wraps at 2^16 when overflow checks are off.
U16 == 2 ^ 16

\* a >= b on u64 values (u64::checked_sub(a, b) is Some).
u64_ge(a, b) == IF (a < 0) = (b < 0) THEN a >= b ELSE a < 0

\* a + b on u64 values exceeds u64::MAX.
u64_add_overflows(a, b) ==
    IF a >= 0 /\ b >= 0 THEN FALSE
    ELSE IF a < 0 /\ b < 0 THEN TRUE
    ELSE a + b >= 0

\* Decimal::zero()
zero == Decimal(0, 0)

\* #[derive(PartialOrd, Ord)] on Decimal: dollars are compared first, as u64
\* values, then cents.
cmp(self, other) ==
    IF self.dollars # other.dollars
    THEN (IF u64_ge(self.dollars, other.dollars) THEN "Greater" ELSE "Less")
    ELSE IF self.cents < other.cents THEN "Less"
    ELSE IF self.cents > other.cents THEN "Greater"
    ELSE "Equal"

\* impl AddAssign for Decimal (self += rhs), returning the new self, with
\* the wrapping arithmetic of a build without overflow checks.
AddAssign(self, rhs) ==
    LET cents1 == (self.cents + rhs.cents) % U16
        dollars1 == self.dollars + (rhs.dollars + (cents1 \div Pow10))
    IN  Decimal(dollars1, cents1 % Pow10)

\* One of the three additions of add_assign overflows: a build with overflow
\* checks panics there.
AddAssign_overflows(self, rhs) ==
    LET cents1 == (self.cents + rhs.cents) % U16
        carry == cents1 \div Pow10
    IN  \/ self.cents + rhs.cents >= U16
        \/ u64_add_overflows(rhs.dollars, carry)
        \/ u64_add_overflows(self.dollars, rhs.dollars + carry)

\* impl Add for Decimal
Add(self, rhs) == AddAssign(self, rhs)

\* Decimal::new(dollars, cents)
new(d, c) == AddAssign(Decimal(d, c), zero)

\* impl Sub for Decimal whose (None, true) arm forgets the dollar borrowed
\* for the cents.
Sub_noBorrow(self, rhs) ==
    LET some == u64_ge(self.dollars, rhs.dollars)
        dollars == self.dollars - rhs.dollars
        ge == self.cents >= rhs.cents
    IN  CASE ~some /\ ~ge ->
                [ok |-> FALSE,
                 v |-> Decimal(rhs.dollars - self.dollars,
                               rhs.cents - self.cents)]
          [] ~some /\ ge ->
                [ok |-> FALSE,
                 v |-> Decimal(rhs.dollars - self.dollars,
                               Pow10 + rhs.cents - self.cents)]
          [] some /\ ge ->
                [ok |-> TRUE,
                 v |-> Decimal(dollars, self.cents - rhs.cents)]
          [] some /\ ~ge /\ dollars = 0 ->
                [ok |-> FALSE,
                 v |-> Decimal(0, rhs.cents - self.cents)]
          [] some /\ ~ge /\ dollars # 0 ->
                [ok |-> TRUE,
                 v |-> Decimal(dollars - 1,
                               Pow10 + self.cents - rhs.cents)]

\* impl Sub for Decimal: Result<Self, Self>, as [ok, v].
Sub(self, rhs) ==
    LET some == u64_ge(self.dollars, rhs.dollars)  \* checked_sub is Some
        dollars == self.dollars - rhs.dollars
        ge == self.cents >= rhs.cents
    IN  CASE ~some /\ ~ge ->
                [ok |-> FALSE,
                 v |-> Decimal(rhs.dollars - self.dollars,
                               rhs.cents - self.cents)]
          [] ~some /\ ge ->
                [ok |-> FALSE,
                 v |-> Decimal(rhs.dollars - self.dollars - 1,
                               Pow10 + rhs.cents - self.cents)]
          [] some /\ ge ->
                [ok |-> TRUE,
                 v |-> Decimal(dollars, self.cents - rhs.cents)]
          [] some /\ ~ge /\ dollars = 0 ->
                [ok |-> FALSE,
                 v |-> Decimal(0, rhs.cents - self.cents)]
          [] some /\ ~ge /\ dollars # 0 ->
                [ok |-> TRUE,
                 v |-> Decimal(dollars - 1,
                               Pow10 + self.cents - rhs.cents)]

\* The amounts carried by Deposit and Withdrawal events: like the amounts of
\* random_process_test, far enough below u64::MAX that no sum of the events
\* of one run overflows.
Amounts == {new(0, 0), new(0, 5000), new(1, 5000)}

\* ------------------------------------------------------------------------
\* client.rs
\* ------------------------------------------------------------------------
\* Client::new(id)
Client_new(id) ==
    [id |-> id, available |-> zero, held |-> zero, held_reserve |-> zero,
     reserve |-> zero, locked |-> FALSE]

\* Results of the account operations: the account after the call, whether
\* it returned Ok, and the value carried by Err (None for a frozen client).
\* panic tells that one of the call's Decimal additions overflows: a build
\* with overflow checks panics inside the call, and c, ok, err are what a
\* build without them leaves and returns.
AccOk(c) == [c |-> c, ok |-> TRUE, none |-> FALSE, err |-> zero, panic |-> FALSE]
AccErr(c, v) == [c |-> c, ok |-> FALSE, none |-> FALSE, err |-> v, panic |-> FALSE]
AccErrNone(c) == [c |-> c, ok |-> FALSE, none |-> TRUE, err |-> zero, panic |-> FALSE]

\* The result res of a call whose additions overflow when overflows holds.
Adding(res, overflows) == [res EXCEPT !.panic = overflows]

\* Client::deposit that credits available without looking at held_reserve.
deposit_noReserve(self, amount) ==
    AccOk([self EXCEPT !.available = AddAssign(self.available, amount)])

\* Client::deposit with the whole amount, not the leftover, made available
\* once the reserve is drained.
deposit_mut(self, amount) ==
    LET r == Sub(self.held_reserve, amount)
    IN  IF r.ok
        THEN AccOk([self EXCEPT !.held_reserve = r.v,
                                !.held = AddAssign(self.held, amount)])
        ELSE AccOk([self EXCEPT !.held = AddAssign(self.held, self.held_reserve),
                                !.held_reserve = zero,
                                !.available = AddAssign(self.available, amount)])

\* Client::deposit
deposit(self, amount) ==
    LET r == Sub(self.held_reserve, amount)
    IN  IF r.ok
        THEN Adding(AccOk([self EXCEPT !.held_reserve = r.v,
                                       !.held = AddAssign(self.held, amount)]),
                    AddAssign_overflows(self.held, amount))
        ELSE Adding(AccOk([self EXCEPT !.held = AddAssign(self.held, self.held_reserve),
                                       !.held_reserve = zero,
                                       !.available = AddAssign(self.available, r.v)]),
                    \/ AddAssign_overflows(self.held, self.held_reserve)
                    \/ AddAssign_overflows(self.available, r.v))

\* Client::withdraw
withdraw(self, amount) ==
    LET r == Sub(self.available, amount)
    IN  IF self.locked THEN AccErrNone(self)
        ELSE IF r.ok THEN AccOk([self EXCEPT !.available = r.v])
        ELSE AccErr(self, self.available)

\* Client::dispute_deposit that holds the amount without taking it out of
\* available.
dispute_deposit_noDebit(self, amount) ==
    LET r == Sub(self.available, amount)
    IN  IF r.ok
        THEN AccOk([self EXCEPT !.held = AddAssign(self.held, amount)])
        ELSE AccOk([self EXCEPT !.held = AddAssign(self.held, self.available),
                                !.available = zero,
                                !.held_reserve = AddAssign(self.held_reserve, r.v)])

\* Client::dispute_deposit that drops the shortfall instead of recording it in
\* held_reserve.
dispute_deposit_noReserve(self, amount) ==
    LET r == Sub(self.available, amount)
    IN  IF r.ok
        THEN AccOk([self EXCEPT !.held = AddAssign(self.held, amount),
                                !.available = r.v])
        ELSE AccOk([self EXCEPT !.held = AddAssign(self.held, self.available),
                                !.available = zero])

\* Client::dispute_deposit
dispute_deposit(self, amount) ==
    LET r == Sub(self.available, amount)
    IN  IF r.ok
        THEN Adding(AccOk([self EXCEPT !.held = AddAssign(self.held, amount),
                                       !.available = r.v]),
                    AddAssign_overflows(self.held, amount))
        ELSE Adding(AccOk([self EXCEPT !.held = AddAssign(self.held, self.available),
                                       !.available = zero,
                                       !.held_reserve = AddAssign(self.held_reserve, r.v)]),
                    \/ AddAssign_overflows(self.held, self.available)
                    \/ AddAssign_overflows(self.held_reserve, r.v))

\* Client::dispute_withdrawal
dispute_withdrawal(self, amount) ==
    Adding(AccOk([self EXCEPT !.reserve = AddAssign(self.reserve, amount)]),
           AddAssign_overflows(self.reserve, amount))

\* Client::resolve_deposit that releases from held only.
resolve_deposit_heldOnly(self, amount) ==
    LET h == Sub(self.held, amount)
    IN  IF h.ok
        THEN AccOk([self EXCEPT !.held = h.v,
                                !.available = AddAssign(self.available, amount)])
        ELSE AccErr(self, Add(self.held, self.held_reserve))

\* Client::resolve_deposit clearing held_reserve before it knows that held
\* covers the remainder.
resolve_deposit_mut(self, amount) ==
    LET r == Sub(self.held_reserve, amount)
        h == Sub(self.held, r.v)
        drained == [self EXCEPT !.held_reserve = zero]
    IN  IF r.ok THEN AccOk([self EXCEPT !.held_reserve = r.v])
        ELSE IF h.ok
        THEN AccOk([drained EXCEPT !.held = h.v,
                                   !.available = AddAssign(self.available, r.v)])
        ELSE AccErr(drained, Add(self.held, self.held_reserve))

\* Client::resolve_deposit
resolve_deposit(self, amount) ==
    LET r == Sub(self.held_reserve, amount)
        h == Sub(self.held, r.v)
    IN  IF r.ok THEN AccOk([self EXCEPT !.held_reserve = r.v])
        ELSE IF h.ok
        THEN Adding(AccOk([self EXCEPT !.held_reserve = zero,
                                       !.held = h.v,
                                       !.available = AddAssign(self.available, r.v)]),
                    AddAssign_overflows(self.available, r.v))
        ELSE Adding(AccErr(self, Add(self.held, self.held_reserve)),
                    AddAssign_overflows(self.held, self.held_reserve))

\* Client::resolve_withdrawal
resolve_withdrawal(self, amount) ==
    LET r == Sub(self.reserve, amount)
    IN  IF r.ok THEN AccOk([self EXCEPT !.reserve = r.v])
        ELSE AccErr(self, self.reserve)

\* Client::chargeback_deposit that returns the freed funds to available, as
\* resolve_deposit does.
chargeback_deposit_refund(self, amount) ==
    LET locked == [self EXCEPT !.locked = TRUE]
        r == Sub(locked.held_reserve, amount)
        h == Sub(locked.held, r.v)
    IN  IF r.ok THEN AccOk([locked EXCEPT !.held_reserve = r.v])
        ELSE IF h.ok
        THEN AccOk([locked EXCEPT !.held_reserve = zero, !.held = h.v,
                                  !.available = AddAssign(locked.available, r.v)])
        ELSE AccErr(locked, Add(locked.held, locked.held_reserve))

\* Client::chargeback_deposit locking the account only when it succeeds.
chargeback_deposit_mut(self, amount) ==
    LET r == Sub(self.held_reserve, amount)
        h == Sub(self.held, r.v)
    IN  IF r.ok THEN AccOk([self EXCEPT !.locked = TRUE, !.held_reserve = r.v])
        ELSE IF h.ok
        THEN AccOk([self EXCEPT !.locked = TRUE, !.held_reserve = zero,
                                !.held = h.v])
        ELSE AccErr(self, Add(self.held, self.held_reserve))

\* Client::chargeback_deposit
chargeback_deposit(self, amount) ==
    LET locked == [self EXCEPT !.locked = TRUE]
        r == Sub(locked.held_reserve, amount)
        h == Sub(locked.held, r.v)
    IN  IF r.ok THEN AccOk([locked EXCEPT !.held_reserve = r.v])
        ELSE IF h.ok
        THEN AccOk([locked EXCEPT !.held_reserve = zero, !.held = h.v])
        ELSE Adding(AccErr(locked, Add(locked.held, locked.held_reserve)),
                    AddAssign_overflows(locked.held, locked.held_reserve))

\* Client::chargeback_withdrawal that relieves the reserve without giving the
\* withdrawn amount back.
chargeback_withdrawal_noRefund(self, amount) ==
    LET locked == [self EXCEPT !.locked = TRUE]
        r == Sub(locked.reserve, amount)
    IN  IF r.ok THEN AccOk([locked EXCEPT !.reserve = r.v])
        ELSE AccErr(locked, locked.reserve)

\* Client::chargeback_withdrawal
chargeback_withdrawal(self, amount) ==
    LET locked == [self EXCEPT !.locked = TRUE]
        r == Sub(locked.reserve, amount)
    IN  IF r.ok
        THEN Adding(AccOk([locked EXCEPT !.reserve = r.v,
                                         !.available = AddAssign(locked.available, amount)]),
                    AddAssign_overflows(locked.available, amount))
        ELSE AccErr(locked, locked.reserve)

\* ------------------------------------------------------------------------
\* transaction.rs, transaction_set.rs
\* ------------------------------------------------------------------------
\* enum State
State == {"Committed", "Resolved", "Disputed", "ChargedBack", "ChargedBackFinal"}

\* enum DisputableType { Deposit(Decimal), Withdrawal(Decimal) }
DisputableType(kind, amount) == [kind |-> kind, amount |-> amount]

\* struct DisputableTransaction
DisputableTransaction(c, t, ty) ==
    [client_id |-> c, transaction_id |-> t, type_ |-> ty]

\* MemoryClient::store that keeps an entry that is already there.
store_keep(m, t) ==
    [i \in (DOMAIN m) \cup {t.transaction_id} |->
        IF i \in DOMAIN m THEN m[i] ELSE [t |-> t, s |-> "Committed"]]

\* MemoryClient::store: HashMap::insert of (t, Committed) under t's id.
store(m, t) ==
    [i \in (DOMAIN m) \cup {t.transaction_id} |->
        IF i = t.transaction_id THEN [t |-> t, s |-> "Committed"] ELSE m[i]]

\* MemoryClient::access: Option<(DisputableTransaction, State)>.
access(m, id) ==
    IF id \in DOMAIN m THEN [some |-> TRUE, e |-> <<m[id]>>]
    ELSE [some |-> FALSE, e |-> <<>>]

\* MemoryClient::update without the Resolved -> Committed arm.
updateCommits_mut(s, state) ==
    IF s = "ChargedBack" /\ state = "ChargedBackFinal" THEN TRUE
    ELSE IF s = "ChargedBackFinal" THEN FALSE
    ELSE IF state = "ChargedBackFinal" THEN FALSE
    ELSE IF s = "ChargedBack" THEN FALSE
    ELSE IF s = "Committed" /\ state = "ChargedBack" THEN FALSE
    ELSE IF s = "Committed" /\ state = "Committed" THEN FALSE
    ELSE IF s = "Resolved" THEN FALSE
    ELSE TRUE

\* MemoryClient::update without the (ChargedBackFinal, _) arm.
updateCommits_noFinal(s, state) ==
    IF (s = "Resolved" /\ state = "Committed")
       \/ (s = "ChargedBack" /\ state = "ChargedBackFinal") THEN TRUE
    ELSE IF state = "ChargedBackFinal" THEN FALSE
    ELSE IF s = "ChargedBack" THEN FALSE
    ELSE IF s = "Committed" /\ state = "ChargedBack" THEN FALSE
    ELSE IF s = "Committed" /\ state = "Committed" THEN FALSE
    ELSE IF s = "Resolved" THEN FALSE
    ELSE TRUE

\* The arms of the match in MemoryClient::update, in source order, for an
\* entry that exists: TRUE when an arm that commits the state is taken.
updateCommits(s, state) ==
    IF (s = "Resolved" /\ state = "Committed")
       \/ (s = "ChargedBack" /\ state = "ChargedBackFinal") THEN TRUE
    ELSE IF s = "ChargedBackFinal" THEN FALSE
    ELSE IF state = "ChargedBackFinal" THEN FALSE
    ELSE IF s = "ChargedBack" THEN FALSE
    ELSE IF s = "Committed" /\ state = "ChargedBack" THEN FALSE
    ELSE IF s = "Committed" /\ state = "Committed" THEN FALSE
    ELSE IF s = "Resolved" THEN FALSE
    ELSE TRUE

\* MemoryClient::update: the map after the call and the returned
\* Result<DisputableTransaction, UpdateFailure>.
update(m, id, state) ==
    IF id \notin DOMAIN m
    THEN [m |-> m, ok |-> FALSE, err |-> "NotFound", s |-> "", t |-> <<>>]
    ELSE IF updateCommits(m[id].s, state)
    THEN [m |-> [m EXCEPT ![id].s = state], ok |-> TRUE, err |-> "",
          s |-> "", t |-> <<m[id].t>>]
    ELSE [m |-> m, ok |-> FALSE, err |-> "WrongState", s |-> m[id].s,
          t |-> <<>>]

\* ------------------------------------------------------------------------
\* main.rs: the state of one run
\* ------------------------------------------------------------------------
VARIABLES
    clients,     \* HashMap<u16, Client>: the accounts, keyed by client id
    ledger,      \* MemoryClient: HashMap<u32, (DisputableTransaction, State)>
    ev,          \* the event (or ledger call) processed last
    report,      \* what the last event reported (the eprintln! diagnostics)
    charged,     \* history: clients on which chargeback_* has been invoked
    recommitted, \* history: ids whose last Resolve closed back to Committed
    nevents,     \* number of events processed so far
    call,        \* the last call made directly on the ledger store, with its result
    cache,       \* CachedClient::cache, the entries held by the SizedCache
    bare,        \* a bare MemoryClient given the same calls as the CachedClient
    dec          \* the Decimal operation applied last, with inputs and result

vars == <<clients, ledger, ev, report, charged, recommitted, nevents, call,
          cache, bare, dec>>

\* struct Transaction { client_id, transaction_id, type_ }
Transaction(c, t, kind, amount) ==
    [client_id |-> c, transaction_id |-> t, kind |-> kind, amount |-> amount]

Report(kind, s, v) == [kind |-> kind, s |-> s, v |-> v]

NoEvent == Transaction(0, 0, "None", zero)

\* A call of the transaction_set::Client trait and what it returned.
Call(op, id, state, ret) == [op |-> op, id |-> id, state |-> state, ret |-> ret]

NoCall == Call("None", 0, "", <<>>)

\* A Decimal operation: its operands, the string it read or wrote, its result.
Dec(op, a, b, str, out) == [op |-> op, a |-> a, b |-> b, str |-> str, out |-> out]

NoDec == Dec("None", zero, zero, <<>>, <<>>)

\* clients.insert(id, Client::new(id)): the account is replaced, not kept.
or_insert_mut(cl, id) ==
    [i \in (DOMAIN cl) \cup {id} |-> IF i = id THEN Client_new(id) ELSE cl[i]]

\* clients.entry(id).or_insert(Client::new(id))
or_insert(cl, id) ==
    [i \in (DOMAIN cl) \cup {id} |-> IF i \in DOMAIN cl THEN cl[i] ELSE Client_new(id)]

\* The report of a failed first update of a Dispute/Resolve/Chargeback event.
UpdateFailure(u) == Report(u.err, u.s, zero)

Init ==
    /\ clients = << >>
    /\ ledger = << >>
    /\ ev = NoEvent
    /\ report = Report("Ok", "", zero)
    /\ charged = {}
    /\ recommitted = {}
    /\ nevents = 0
    /\ call = NoCall
    /\ cache = << >>
    /\ bare = << >>
    /\ dec = NoDec

\* The process has not panicked: main goes on reading events.
Running == report.kind # "Panic"

\* An addition of the account operation overflowed in a build with overflow
\* checks: the panic unwinds out of main, which writes no account.
Panicked ==
    /\ report' = Report("Panic", "", zero)
    /\ UNCHANGED <<clients, ledger>>

\* process_transaction, Disputable(Deposit(deposit))
Deposit(c, t, a) ==
    /\ Running
    /\ LET cl == or_insert(clients, c)
           r == deposit(cl[c], a)
       IN  \E crash \in {FALSE, r.panic} :
              IF crash
              THEN Panicked /\ UNCHANGED recommitted
              ELSE /\ clients' = [cl EXCEPT ![c] = r.c]
                   /\ ledger' = store(ledger,
                          DisputableTransaction(c, t, DisputableType("Deposit", a)))
                   /\ report' = Report("Ok", "", zero)
                   /\ recommitted' = recommitted \ {t}
    /\ ev' = Transaction(c, t, "Deposit", a)
    /\ nevents' = nevents + 1
    /\ UNCHANGED <<charged, call, cache, bare, dec>>

\* process_transaction, Disputable(Withdrawal(withdrawal)), storing the
\* record whether or not the withdrawal was accepted.
Withdrawal_mut(c, t, a) ==
    /\ Running
    /\ LET cl == or_insert(clients, c)
           r == withdraw(cl[c], a)
       IN  /\ clients' = [cl EXCEPT ![c] = r.c]
           /\ ledger' = store(ledger,
                  DisputableTransaction(c, t, DisputableType("Withdrawal", a)))
           /\ report' = IF r.ok THEN Report("Ok", "", zero)
                        ELSE IF r.none THEN Report("Frozen", "", zero)
                        ELSE Report("Insufficient", "", r.err)
    /\ recommitted' = recommitted \ {t}
    /\ ev' = Transaction(c, t, "Withdrawal", a)
    /\ nevents' = nevents + 1
    /\ UNCHANGED <<charged, call, cache, bare, dec>>

\* process_transaction, Disputable(Withdrawal(withdrawal))
Withdrawal(c, t, a) ==
    /\ Running
    /\ LET cl == or_insert(clients, c)
           r == withdraw(cl[c], a)
       IN  /\ clients' = [cl EXCEPT ![c] = r.c]
           /\ IF r.ok
              THEN /\ ledger' = store(ledger,
                         DisputableTransaction(c, t, DisputableType("Withdrawal", a)))
                   /\ report' = Report("Ok", "", zero)
                   /\ recommitted' = recommitted \ {t}
              ELSE /\ ledger' = ledger
                   /\ report' = IF r.none THEN Report("Frozen", "", zero)
                                ELSE Report("Insufficient", "", r.err)
                   /\ UNCHANGED recommitted
    /\ ev' = Transaction(c, t, "Withdrawal", a)
    /\ nevents' = nevents + 1
    /\ UNCHANGED <<charged, call, cache, bare, dec>>

\* process_transaction, Dispute, acting on the account of the client that the
\* stored record names instead of the event's client.
Dispute_owner(c, t) ==
    /\ Running
    /\ LET cl == or_insert(clients, c)
           u == update(ledger, t, "Disputed")
       IN  IF ~u.ok
           THEN /\ clients' = cl
                /\ ledger' = u.m
                /\ report' = UpdateFailure(u)
           ELSE LET disputed == u.t[1]
                    o == disputed.client_id
                    r == IF disputed.type_.kind = "Deposit"
                         THEN dispute_deposit(cl[o], disputed.type_.amount)
                         ELSE dispute_withdrawal(cl[o], disputed.type_.amount)
                IN  \E crash \in {FALSE, r.panic} :
                       IF crash
                       THEN Panicked
                       ELSE /\ clients' = [cl EXCEPT ![o] = r.c]
                            /\ ledger' = u.m
                            /\ report' = Report("Ok", "", zero)
    /\ ev' = Transaction(c, t, "Dispute", zero)
    /\ nevents' = nevents + 1
    /\ UNCHANGED <<charged, recommitted, call, cache, bare, dec>>

\* process_transaction, Dispute
Dispute(c, t) ==
    /\ Running
    /\ LET cl == or_insert(clients, c)
           u == update(ledger, t, "Disputed")
       IN  IF ~u.ok
           THEN /\ clients' = cl
                /\ ledger' = u.m
                /\ report' = UpdateFailure(u)
           ELSE LET disputed == u.t[1]
                    r == IF disputed.type_.kind = "Deposit"
                         THEN dispute_deposit(cl[c], disputed.type_.amount)
                         ELSE dispute_withdrawal(cl[c], disputed.type_.amount)
                IN  \E crash \in {FALSE, r.panic} :
                       IF crash
                       THEN Panicked
                       ELSE /\ clients' = [cl EXCEPT ![c] = r.c]
                            /\ ledger' = u.m
                            /\ report' = Report("Ok", "", zero)
    /\ ev' = Transaction(c, t, "Dispute", zero)
    /\ nevents' = nevents + 1
    /\ UNCHANGED <<charged, recommitted, call, cache, bare, dec>>

\* process_transaction, Resolve
Resolve(c, t) ==
    /\ Running
    /\ LET cl == or_insert(clients, c)
           u == update(ledger, t, "Resolved")
       IN  IF ~u.ok
           THEN /\ clients' = cl
                /\ ledger' = u.m
                /\ report' = UpdateFailure(u)
                /\ UNCHANGED recommitted
           ELSE LET disputed == u.t[1]
                    r == IF disputed.type_.kind = "Deposit"
                         THEN resolve_deposit(cl[c], disputed.type_.amount)
                         ELSE resolve_withdrawal(cl[c], disputed.type_.amount)
                    u2 == update(u.m, t, IF r.ok THEN "Committed" ELSE "Disputed")
                IN  \E crash \in {FALSE, r.panic} :
                       IF crash
                       THEN Panicked /\ UNCHANGED recommitted
                       ELSE /\ clients' = [cl EXCEPT ![c] = r.c]
                            /\ ledger' = u2.m
                            /\ report' = IF r.ok THEN Report("Ok", "", zero)
                                         ELSE Report("Shortfall", "", r.err)
                            /\ recommitted' =
                                  IF ledger[t].s = "Disputed" /\ r.ok /\ u2.ok
                                  THEN recommitted \cup {t}
                                  ELSE recommitted
    /\ ev' = Transaction(c, t, "Resolve", zero)
    /\ nevents' = nevents + 1
    /\ UNCHANGED <<charged, call, cache, bare, dec>>

\* process_transaction, Chargeback
Chargeback(c, t) ==
    /\ Running
    /\ LET cl == or_insert(clients, c)
           u == update(ledger, t, "ChargedBack")
       IN  IF ~u.ok
           THEN /\ clients' = cl
                /\ ledger' = u.m
                /\ report' = UpdateFailure(u)
                /\ UNCHANGED <<charged, call>>
           ELSE LET disputed == u.t[1]
                    r == IF disputed.type_.kind = "Deposit"
                         THEN chargeback_deposit(cl[c], disputed.type_.amount)
                         ELSE chargeback_withdrawal(cl[c], disputed.type_.amount)
                    u2 == update(u.m, t, IF r.ok THEN "ChargedBackFinal" ELSE "Disputed")
                IN  \E crash \in {FALSE, r.panic} :
                       IF crash
                       THEN Panicked /\ UNCHANGED charged
                       ELSE /\ clients' = [cl EXCEPT ![c] = r.c]
                            /\ ledger' = u2.m
                            /\ report' = IF r.ok THEN Report("Ok", "", zero)
                                         ELSE Report("Shortfall", "", r.err)
                            /\ charged' = charged \cup {c}
    /\ ev' = Transaction(c, t, "Chargeback", zero)
    /\ nevents' = nevents + 1
    /\ UNCHANGED <<recommitted, call, cache, bare, dec>>

\* One step of the event loop of main, for a run of at most MaxEvents events.
DepositEvent(c, t, a) ==
    /\ nevents < MaxEvents
    /\ Deposit(c, t, a)

WithdrawalEvent(c, t, a) ==
    /\ nevents < MaxEvents
    /\ Withdrawal(c, t, a)

DisputeEvent(c, t) ==
    /\ nevents < MaxEvents
    /\ Dispute(c, t)

ResolveEvent(c, t) ==
    /\ nevents < MaxEvents
    /\ Resolve(c, t)

ChargebackEvent(c, t) ==
    /\ nevents < MaxEvents
    /\ Chargeback(c, t)

Next ==
    \/ \E c \in ClientIds, t \in TxIds, a \in Amounts : DepositEvent(c, t, a)
    \/ \E c \in ClientIds, t \in TxIds, a \in Amounts : WithdrawalEvent(c, t, a)
    \/ \E c \in ClientIds, t \in TxIds : DisputeEvent(c, t)
    \/ \E c \in ClientIds, t \in TxIds : ResolveEvent(c, t)
    \/ \E c \in ClientIds, t \in TxIds : ChargebackEvent(c, t)

Spec == Init /\ [][Next]_vars

\* ------------------------------------------------------------------------
\* main.rs on well-formed input: every deposit and withdrawal carries a
\* transaction id that the ledger has not seen, and every dispute, resolve
\* and chargeback carries the client id of the record it names.
\* ------------------------------------------------------------------------
UniqueDeposit(c, t, a) ==
    /\ nevents < MaxUniqueEvents
    /\ t \notin DOMAIN ledger
    /\ Deposit(c, t, a)

UniqueWithdrawal(c, t, a) ==
    /\ nevents < MaxUniqueEvents
    /\ t \notin DOMAIN ledger
    /\ Withdrawal(c, t, a)

\* The event names no stored record, or a record of its own client.
NamesOwn(c, t) == t \in DOMAIN ledger => ledger[t].t.client_id = c

OwnDispute(c, t) ==
    /\ nevents < MaxUniqueEvents
    /\ NamesOwn(c, t)
    /\ Dispute(c, t)

OwnResolve(c, t) ==
    /\ nevents < MaxUniqueEvents
    /\ NamesOwn(c, t)
    /\ Resolve(c, t)

OwnChargeback(c, t) ==
    /\ nevents < MaxUniqueEvents
    /\ NamesOwn(c, t)
    /\ Chargeback(c, t)

NextUnique ==
    \/ \E c \in ClientIds, t \in TxIds, a \in Amounts : UniqueDeposit(c, t, a)
    \/ \E c \in ClientIds, t \in TxIds, a \in Amounts : UniqueWithdrawal(c, t, a)
    \/ \E c \in ClientIds, t \in TxIds : OwnDispute(c, t)
    \/ \E c \in ClientIds, t \in TxIds : OwnResolve(c, t)
    \/ \E c \in ClientIds, t \in TxIds : OwnChargeback(c, t)

SpecUnique == Init /\ [][NextUnique]_vars

\* ------------------------------------------------------------------------
\* transaction_set.rs driven directly: any sequence of store / access /
\* update calls on a MemoryClient.
\* ------------------------------------------------------------------------
\* The records a caller can store.
Records ==
    {DisputableTransaction(c, t, DisputableType(k, a)) :
        c \in ClientIds, t \in TxIds, k \in {"Deposit", "Withdrawal"}, a \in Amounts}

\* MemoryClient::store
StoreCall(t) ==
    /\ ledger' = store(ledger, t)
    /\ call' = Call("store", t.transaction_id, "", <<>>)
    /\ UNCHANGED <<clients, ev, report, charged, recommitted, nevents, cache, bare, dec>>

\* MemoryClient::access
AccessCall(id) ==
    /\ ledger' = ledger
    /\ call' = Call("access", id, "", access(ledger, id))
    /\ UNCHANGED <<clients, ev, report, charged, recommitted, nevents, cache, bare, dec>>

\* MemoryClient::update
UpdateCall(id, state) ==
    /\ LET u == update(ledger, id, state)
       IN  /\ ledger' = u.m
           /\ call' = Call("update", id, state,
                           [ok |-> u.ok, err |-> u.err, s |-> u.s, t |-> u.t])
    /\ UNCHANGED <<clients, ev, report, charged, recommitted, nevents, cache, bare, dec>>

NextStore ==
    \/ \E t \in Records : StoreCall(t)
    \/ \E id \in TxIds : AccessCall(id)
    \/ \E id \in TxIds, state \in State : UpdateCall(id, state)

SpecStore == Init /\ [][NextStore]_vars

\* ------------------------------------------------------------------------
\* transaction_set.rs: CachedClient over a MemoryClient (ledger, cache), next
\* to a bare MemoryClient (bare) that is given the same calls
\* ------------------------------------------------------------------------

\* Cached::cache_get / cache_get_mut on the cache of (record, state) pairs
cache_get(ca, id) ==
    IF id \in DOMAIN ca THEN [some |-> TRUE, e |-> <<ca[id]>>]
    ELSE [some |-> FALSE, e |-> <<>>]

\* CachedClient::access that keeps what the inner client returned in the
\* cache.
cached_access_fill(client, ca, id) ==
    LET g == cache_get(ca, id)
        a == access(client, id)
    IN  IF g.some THEN [cache |-> ca, r |-> g]
        ELSE IF a.some
        THEN [cache |-> [i \in (DOMAIN ca) \cup {id} |->
                            IF i = id THEN a.e[1] ELSE ca[i]],
              r |-> a]
        ELSE [cache |-> ca, r |-> a]

\* CachedClient::access: the cached pair, or else the inner client's answer.
cached_access(client, ca, id) ==
    LET g == cache_get(ca, id)
    IN  IF g.some THEN [cache |-> ca, r |-> g]
        ELSE [cache |-> ca, r |-> access(client, id)]

\* CachedClient::update: the inner client's update, `?` on its failure, then
\* the state of a cached pair is overwritten.
cached_update(client, ca, id, state) ==
    LET u == update(client, id, state)
        r == [ok |-> u.ok, err |-> u.err, s |-> u.s, t |-> u.t]
    IN  IF ~u.ok THEN [client |-> u.m, cache |-> ca, r |-> r]
        ELSE [client |-> u.m,
              cache |-> IF cache_get(ca, id).some
                        THEN [ca EXCEPT ![id].s = state] ELSE ca,
              r |-> r]

\* store on both clients
CachedStore(t) ==
    /\ ledger' = store(ledger, t)
    /\ cache' = cache
    /\ bare' = store(bare, t)
    /\ call' = Call("store", t.transaction_id, "", <<>>)
    /\ UNCHANGED <<clients, ev, report, charged, recommitted, nevents, dec>>

\* access on both clients
CachedAccess(id) ==
    /\ LET a == cached_access(ledger, cache, id)
       IN  /\ cache' = a.cache
           /\ call' = Call("access", id, "",
                           [cached |-> a.r, bare |-> access(bare, id)])
    /\ UNCHANGED <<ledger, bare>>
    /\ UNCHANGED <<clients, ev, report, charged, recommitted, nevents, dec>>

\* update on both clients
CachedUpdate(id, state) ==
    /\ LET u == cached_update(ledger, cache, id, state)
           b == update(bare, id, state)
       IN  /\ ledger' = u.client
           /\ cache' = u.cache
           /\ bare' = b.m
           /\ call' = Call("update", id, state,
                           [cached |-> u.r,
                            bare |-> [ok |-> b.ok, err |-> b.err,
                                      s |-> b.s, t |-> b.t]])
    /\ UNCHANGED <<clients, ev, report, charged, recommitted, nevents, dec>>

NextCache ==
    \/ \E t \in Records : CachedStore(t)
    \/ \E id \in TxIds : CachedAccess(id)
    \/ \E id \in TxIds, state \in State : CachedUpdate(id, state)

SpecCache == Init /\ [][NextCache]_vars

\* ------------------------------------------------------------------------
\* decimal.rs driven directly: Decimal::new, +, -, Display and FromStr applied
\* to operands drawn from bounded sets.
\* ------------------------------------------------------------------------
\* Largest distance of an operand's dollars from 0 and from 2^64.
MaxDollars == 2

\* Dollars of the operands: near 0, two digits wide, and near u64::MAX.
DollarInputs == (0..MaxDollars) \cup {10} \cup {-d : d \in 1..MaxDollars}

\* Cents of the operands (normalized).
CentInputs == {0, 1, 20, 5000, 9999}

\* Cents handed to Decimal::new, which takes any u16.
RawCentInputs == CentInputs \cup {Pow10, 12345, U16 - 1}

DecInputs == {Decimal(d, c) : d \in DollarInputs, c \in CentInputs}

\* A str, as the sequence of its UTF-8 bytes (0..255). Ascii gives the bytes
\* of the ASCII characters that the inputs below are written with.
Ascii ==
    ("+" :> 43) @@ ("-" :> 45) @@ ("." :> 46) @@ ("0" :> 48) @@ ("1" :> 49)
    @@ ("2" :> 50) @@ ("3" :> 51) @@ ("4" :> 52) @@ ("5" :> 53) @@ ("6" :> 54)
    @@ ("7" :> 55) @@ ("8" :> 56) @@ ("9" :> 57) @@ ("x" :> 120)

bytes(chars) == [i \in 1..Len(chars) |-> Ascii[chars[i]]]

\* The bytes of the decimal digits.
Digits == Ascii["0"]..Ascii["9"]

IsDigit(b) == b \in Digits

DigitVal(b) == b - Ascii["0"]

\* The bytes of a sequence of digit values.
digit_bytes(digs) == [i \in 1..Len(digs) |-> digs[i] + Ascii["0"]]

\* The two bytes of U+00E9 (e with acute accent), a character outside ASCII.
EAcute == <<195, 169>>

\* The decimal digits of u64::MAX = 2^64 - 1, and of the next integer.
U64MaxDigits == <<1, 8, 4, 4, 6, 7, 4, 4, 0, 7, 3, 7, 0, 9, 5, 5, 1, 6, 1, 5>>
U64OverDigits == <<1, 8, 4, 4, 6, 7, 4, 4, 0, 7, 3, 7, 0, 9, 5, 5, 1, 6, 1, 6>>

\* The strings handed to Decimal::from_str.
StrInputs ==
    {bytes(<<"1", "0", ".", "1", "2", "3", "4">>), bytes(<<"1", ".", "2">>),
     bytes(<<"0", "0", "1", ".", "0", "0", "2">>), bytes(<<".", "0", "0", "2">>),
     << >>, bytes(<<"5">>), bytes(<<".">>), bytes(<<"7", ".">>),
     bytes(<<"1", ".", "2", "3", "4", "5", "6">>),
     bytes(<<"1", ".", "2", ".", "3">>), bytes(<<"x">>), bytes(<<"1", ".", "x">>),
     bytes(<<"+", "3", ".", "5">>), bytes(<<"2", ".", "0", "3">>),
     bytes(<<"-", "1">>), bytes(<<"1", ".", "+", "5">>),
     bytes(<<"1", ".">>) \o EAcute,
     bytes(<<"1", ".", "2">>) \o EAcute,
     bytes(<<"1", ".">>) \o EAcute \o bytes(<<"5">>),
     EAcute \o bytes(<<".", "5">>),
     digit_bytes(U64MaxDigits),
     digit_bytes(U64OverDigits),
     bytes(<<"0", "0">>) \o digit_bytes(U64MaxDigits) \o bytes(<<".", "5">>),
     digit_bytes([i \in 1..20 |-> 9]),
     digit_bytes([i \in 1..21 |-> IF i = 1 THEN 1 ELSE 0])}

\* The decimal digits of a natural number.
RECURSIVE digits_of(_)
digits_of(n) ==
    IF n < 10 THEN <<n>> ELSE digits_of(n \div 10) \o <<n % 10>>

\* digs with zeros in front, up to the given length.
RECURSIVE zero_extend(_, _)
zero_extend(digs, len) ==
    IF Len(digs) >= len THEN digs ELSE zero_extend(<<0>> \o digs, len)

\* digs without its zeros in front.
RECURSIVE strip_zeros(_)
strip_zeros(digs) ==
    IF digs # << >> /\ digs[1] = 0 THEN strip_zeros(Tail(digs)) ELSE digs

\* a - b - borrow on two digit sequences of one length, a >= b + borrow.
RECURSIVE sub_digits(_, _, _)
sub_digits(a, b, borrow) ==
    IF a = << >> THEN << >>
    ELSE LET n == Len(a)
             d == a[n] - b[n] - borrow
         IN  IF d >= 0
             THEN sub_digits(SubSeq(a, 1, n - 1), SubSeq(b, 1, n - 1), 0) \o <<d>>
             ELSE sub_digits(SubSeq(a, 1, n - 1), SubSeq(b, 1, n - 1), 1)
                      \o <<d + 10>>

\* a > b on two digit sequences of one length.
digits_gt(a, b) ==
    \E i \in 1..Len(a) :
        a[i] > b[i] /\ \A j \in 1..(i - 1) : a[j] = b[j]

\* The number that a digit sequence writes.
RECURSIVE num(_)
num(digs) ==
    IF digs = << >> THEN 0
    ELSE num(SubSeq(digs, 1, Len(digs) - 1)) * 10 + digs[Len(digs)]

\* The decimal digits of the u64 or u16 that the model writes n: of n itself,
\* or of 2^64 + n = u64::MAX - (-n - 1) when n < 0.
u64_digits(n) ==
    IF n >= 0 THEN digits_of(n)
    ELSE sub_digits(U64MaxDigits,
                    zero_extend(digits_of(-n - 1), Len(U64MaxDigits)), 0)

\* {} of a u64 / u16 in a format string: its decimal digits.
to_string(n) == digit_bytes(u64_digits(n))

\* {:04}: the decimal digits, zero-padded on the left to a width of 4.
RECURSIVE pad_left(_, _)
pad_left(str, width) ==
    IF Len(str) >= width THEN str ELSE pad_left(<<Ascii["0"]>> \o str, width)

\* impl Display for Decimal without the zero padding ("{}.{}").
fmt_mut(self) ==
    to_string(self.dollars) \o <<Ascii["."]>> \o to_string(self.cents)

\* impl Display for Decimal: write!(f, "{}.{:04}", self.dollars, self.cents)
fmt(self) ==
    to_string(self.dollars) \o <<Ascii["."]>>
        \o pad_left(to_string(self.cents), PRECISION)

\* The value of a non-empty run of decimal digits.
digits_value(str) == num([i \in 1..Len(str) |-> DigitVal(str[i])])

\* The digits that an integer parse reads: an optional '+', then one or more
\* decimal digits; anything else is a ParseIntError (InvalidDigit, Empty).
int_digits(str) ==
    LET body == IF str # << >> /\ str[1] = Ascii["+"] THEN Tail(str) ELSE str
    IN  IF body # << >> /\ \A i \in 1..Len(body) : IsDigit(body[i])
        THEN [ok |-> TRUE, digs |-> [i \in 1..Len(body) |-> DigitVal(body[i])]]
        ELSE [ok |-> FALSE, digs |-> << >>]

\* str::parse::<u64>(): a number above u64::MAX is a ParseIntError
\* (PosOverflow); a number of 20 digits up to u64::MAX is written
\* 2^64 + n with n = -(u64::MAX - number) - 1.
parse_int(str) ==
    LET d == int_digits(str)
        z == strip_zeros(d.digs)
        width == Len(U64MaxDigits)
    IN  IF ~d.ok THEN [ok |-> FALSE, v |-> 0]
        ELSE IF Len(z) > width THEN [ok |-> FALSE, v |-> 0]
        ELSE IF Len(z) = width /\ digits_gt(z, U64MaxDigits)
        THEN [ok |-> FALSE, v |-> 0]
        ELSE IF Len(z) = width
        THEN [ok |-> TRUE,
              v |-> -num(strip_zeros(sub_digits(U64MaxDigits, z, 0))) - 1]
        ELSE [ok |-> TRUE, v |-> num(z)]

\* u16::from_str: a number above u16::MAX is a ParseIntError (PosOverflow).
parse_u16(str) ==
    LET d == int_digits(str)
        z == strip_zeros(d.digs)
    IN  IF ~d.ok THEN [ok |-> FALSE, v |-> 0]
        ELSE IF Len(z) > Len(digits_of(U16 - 1)) THEN [ok |-> FALSE, v |-> 0]
        ELSE IF num(z) >= U16 THEN [ok |-> FALSE, v |-> 0]
        ELSE [ok |-> TRUE, v |-> num(z)]

\* s.find('.'): the index of the first '.', 0 for None.
find_dot(str) ==
    IF \E i \in 1..Len(str) : str[i] = Ascii["."]
    THEN CHOOSE i \in 1..Len(str) :
            str[i] = Ascii["."] /\ \A j \in 1..(i - 1) : str[j] # Ascii["."]
    ELSE 0

\* str::is_char_boundary(index), index counted from 0: the start, the end,
\* or a byte that is not a UTF-8 continuation byte (0x80..0xBF).
is_char_boundary(str, index) ==
    \/ index = 0
    \/ index = Len(str)
    \/ index < Len(str) /\ str[index + 1] \notin 128..191

\* str::get(begin..end), indices counted from 0: None when the range is out
\* of the string or does not lie on char boundaries.
str_get(str, begin, end) ==
    IF /\ begin <= end
       /\ end <= Len(str)
       /\ is_char_boundary(str, begin)
       /\ is_char_boundary(str, end)
    THEN [some |-> TRUE, s |-> SubSeq(str, begin + 1, end)]
    ELSE [some |-> FALSE, s |-> << >>]

\* The fold of from_str over cent_index in 0..n: the digit that
\* cents.get(cent_index..cent_index + 1) holds, or 0 where get is None.
RECURSIVE fold_cents(_, _)
fold_cents(cents, n) ==
    IF n = 0 THEN [ok |-> TRUE, v |-> 0]
    ELSE LET total == fold_cents(cents, n - 1)
             c == str_get(cents, n - 1, n)
             digit == IF c.some THEN parse_u16(c.s)
                      ELSE [ok |-> TRUE, v |-> 0]
         IN  IF total.ok /\ digit.ok
             THEN [ok |-> TRUE, v |-> total.v * 10 + digit.v]
             ELSE [ok |-> FALSE, v |-> 0]

\* impl FromStr for Decimal: Result<Decimal, ParseIntError> as [ok, v].
from_str(str) ==
    LET dot == find_dot(str)
        dollars_s == IF dot > 0 THEN SubSeq(str, 1, dot - 1) ELSE str
        cents_s == IF dot > 0 THEN SubSeq(str, dot + 1, Len(str)) ELSE << >>
        dollars == IF dollars_s = << >> THEN [ok |-> TRUE, v |-> 0]
                   ELSE parse_int(dollars_s)
        cents == fold_cents(cents_s, PRECISION)
    IN  IF str = << >> THEN [ok |-> FALSE, v |-> zero]
        ELSE IF ~dollars.ok THEN [ok |-> FALSE, v |-> zero]
        ELSE IF ~cents.ok THEN [ok |-> FALSE, v |-> zero]
        ELSE [ok |-> TRUE, v |-> Decimal(dollars.v, cents.v)]

\* The operands are chosen before the operation is applied.
InitDecimal ==
    /\ clients = << >>
    /\ ledger = << >>
    /\ ev = NoEvent
    /\ report = Report("Ok", "", zero)
    /\ charged = {}
    /\ recommitted = {}
    /\ nevents = 0
    /\ call = NoCall
    /\ cache = << >>
    /\ bare = << >>
    /\ dec \in {Dec("pair", a, b, << >>, << >>) : a \in DecInputs, b \in DecInputs}
          \cup {Dec("raw", Decimal(d, c), zero, << >>, << >>) :
                    d \in DollarInputs, c \in RawCentInputs}
          \cup {Dec("str", zero, zero, str, << >>) : str \in StrInputs}

\* The result of an addition: the wrapped sum, or a panic where a build with
\* overflow checks detects the overflow.
Sum(panic, v) == [panic |-> panic, v |-> v]

\* Decimal::new(dollars, cents)
NewOp ==
    /\ dec.op = "raw"
    /\ \E panic \in {FALSE, AddAssign_overflows(dec.a, zero)} :
          dec' = Dec("new", dec.a, zero, << >>, Sum(panic, new(dec.a.dollars, dec.a.cents)))
    /\ UNCHANGED <<clients, ledger, ev, report, charged, recommitted, nevents,
                   call, cache, bare>>

\* a + b
AddOp ==
    /\ dec.op = "pair"
    /\ \E panic \in {FALSE, AddAssign_overflows(dec.a, dec.b)} :
          dec' = Dec("add", dec.a, dec.b, << >>, Sum(panic, Add(dec.a, dec.b)))
    /\ UNCHANGED <<clients, ledger, ev, report, charged, recommitted, nevents,
                   call, cache, bare>>

\* a - b
SubOp ==
    /\ dec.op = "pair"
    /\ dec' = Dec("sub", dec.a, dec.b, << >>, Sub(dec.a, dec.b))
    /\ UNCHANGED <<clients, ledger, ev, report, charged, recommitted, nevents,
                   call, cache, bare>>

\* a.to_string()
DisplayOp ==
    /\ dec.op = "pair"
    /\ dec' = Dec("display", dec.a, zero, fmt(dec.a), << >>)
    /\ UNCHANGED <<clients, ledger, ev, report, charged, recommitted, nevents,
                   call, cache, bare>>

\* Decimal::from_str(s), of an input string or of a displayed Decimal
ParseOp ==
    /\ dec.op \in {"str", "display"}
    /\ dec' = Dec(IF dec.op = "str" THEN "parse" ELSE "reparse",
                  dec.a, zero, dec.str, from_str(dec.str))
    /\ UNCHANGED <<clients, ledger, ev, report, charged, recommitted, nevents,
                   call, cache, bare>>

NextDecimal == NewOp \/ AddOp \/ SubOp \/ DisplayOp \/ ParseOp

SpecDecimal == InitDecimal /\ [][NextDecimal]_vars

\* ------------------------------------------------------------------------
\* Properties
\* ------------------------------------------------------------------------
\* The legal table of the ledger: (current, requested) pairs.
Legal ==
    {<<"Committed", "Disputed">>, <<"Disputed", "Resolved">>,
     <<"Disputed", "ChargedBack">>, <<"Resolved", "Committed">>,
     <<"ChargedBack", "ChargedBackFinal">>}

DisputeKinds == {"Dispute", "Resolve", "Chargeback"}

\* 1 for a Decimal whose dollars are written as 2^64 + n (n < 0), else 0.
High(x) == IF x.dollars < 0 THEN 1 ELSE 0

\* The amount of a Decimal in units of 10^-PRECISION, less High(x) times
\* 2^64 * 10^PRECISION: the amount itself when the dollars are below 2^63,
\* as the dollars of every account and event of Spec and SpecUnique are.
\* Decimals with High(x) = 1 are ordered by cmp and AmountGe.
Val(x) == x.dollars * Pow10 + x.cents

\* The three balances that make up the reported total, in units of 10^-4.
Sum3(x) == Val(x.available) + Val(x.held) + Val(x.held_reserve)

\* The account of client c as process_transaction sees it (created if absent).
\* The account map once client c has an account (a fresh one if it had none).
WithAccount(c) ==
    [i \in (DOMAIN clients) \cup {c} |->
        IF i \in DOMAIN clients THEN clients[i] ELSE Client_new(i)]

AccountOf(c) == WithAccount(c)[c]

Min(a, b) == IF a <= b THEN a ELSE b

\* C1: update(id, requested) on an existing entry succeeds exactly for the
\* five legal (current -> requested) pairs; for the other 20 pairs it returns
\* WrongState(current) and leaves the entry alone; for an unknown id it
\* returns NotFound and creates no entry.
C1_TransitionClosure ==
    [][call'.op = "update" =>
        LET id == call'.id
            r == call'.ret
        IN  IF id \notin DOMAIN ledger
            THEN ~r.ok /\ r.err = "NotFound" /\ ledger' = ledger
            ELSE IF <<ledger[id].s, call'.state>> \in Legal
            THEN r.ok /\ ledger' = [ledger EXCEPT ![id].s = call'.state]
            ELSE /\ ~r.ok /\ r.err = "WrongState" /\ r.s = ledger[id].s
                 /\ ledger' = ledger]_vars

\* C2: a Dispute on an entry that is not Committed, or a Resolve or
\* Chargeback on an entry that is not Disputed, is a no-op: the entry and
\* every field of every account are as before the event.
C2_OutOfTurnNoOp ==
    [][(/\ ev'.kind \in DisputeKinds
        /\ ev'.transaction_id \in DOMAIN ledger
        /\ IF ev'.kind = "Dispute"
           THEN ledger[ev'.transaction_id].s # "Committed"
           ELSE ledger[ev'.transaction_id].s # "Disputed")
       => /\ ledger'[ev'.transaction_id] = ledger[ev'.transaction_id]
          /\ \A c \in DOMAIN clients : clients'[c] = clients[c]]_vars

\* C3: when a Resolve's update to Resolved succeeds but the account-level
\* resolve fails (the shortfall is reported), the entry is Disputed when
\* process_transaction returns.
C3_ResolveRollback ==
    (ev.kind = "Resolve" /\ report.kind = "Shortfall")
        => ledger[ev.transaction_id].s = "Disputed"

\* C4: when a Chargeback's update to ChargedBack succeeds but the
\* account-level chargeback fails (the shortfall is reported), the entry is
\* Disputed when process_transaction returns.
C4_ChargebackRollback ==
    (ev.kind = "Chargeback" /\ report.kind = "Shortfall")
        => ledger[ev.transaction_id].s = "Disputed"

\* C5 as stated: every account operation that returns a failure leaves all
\* five fields (available, held, held_reserve, reserve, locked) as they were.
C5_FailureAllOrNothing ==
    \A c \in DOMAIN clients, a \in Amounts :
        LET x == clients[c]
        IN  \A r \in {withdraw(x, a), resolve_deposit(x, a),
                      resolve_withdrawal(x, a), chargeback_deposit(x, a),
                      chargeback_withdrawal(x, a)} :
                ~r.ok => r.c = x

\* C5 (amended): a failing account operation leaves available, held,
\* held_reserve and reserve as they were; withdraw, resolve_deposit and
\* resolve_withdrawal also leave locked as it was, while a failing
\* chargeback_deposit or chargeback_withdrawal has set locked to true.
C5_FailureKeepsBalances ==
    \A c \in DOMAIN clients, a \in Amounts :
        LET x == clients[c]
        IN  /\ \A r \in {withdraw(x, a), resolve_deposit(x, a),
                         resolve_withdrawal(x, a)} :
                    ~r.ok => r.c = x
            /\ \A r \in {chargeback_deposit(x, a), chargeback_withdrawal(x, a)} :
                    ~r.ok => r.c = [x EXCEPT !.locked = TRUE]

\* A Resolve has just failed at the account level on an account that holds a
\* reserve smaller than the amount, and a chargeback for an amount in
\* Amounts would fail on it too.
C5_Witness ==
    /\ ev.kind = "Resolve"
    /\ report.kind = "Shortfall"
    /\ Val(clients[ev.client_id].held_reserve) > 0
    /\ ~clients[ev.client_id].locked
    /\ \E a \in Amounts : ~chargeback_deposit(clients[ev.client_id], a).ok

\* C6 as stated: in every reachable account state, deposit(amount) makes
\* available + held + held_reserve its value before plus exactly amount.
C6_DepositConservation ==
    \A c \in DOMAIN clients, a \in Amounts :
        Sum3(deposit(clients[c], a).c) = Sum3(clients[c]) + Val(a)

\* C6 (amended): in every reachable account state, deposit(amount) makes
\* available + held its value before plus exactly amount, and makes
\* available + held + held_reserve its value before plus amount minus
\* min(held_reserve, amount).
C6_DepositConservesAvailableHeld ==
    \A c \in DOMAIN clients, a \in Amounts :
        LET x == clients[c]
            y == deposit(x, a).c
        IN  /\ Val(y.available) + Val(y.held)
                   = Val(x.available) + Val(x.held) + Val(a)
            /\ Sum3(y) = Sum3(x) + Val(a) - Min(Val(x.held_reserve), Val(a))

\* A non-zero deposit has just been absorbed by an outstanding held_reserve
\* that is still not exhausted.
C6_Witness ==
    /\ ev.kind = "Deposit"
    /\ Val(ev.amount) > 0
    /\ Val(clients[ev.client_id].held_reserve) > 0
    /\ Val(clients[ev.client_id].held) > 0

\* C7: once chargeback_deposit or chargeback_withdrawal has been invoked on
\* an account (Ok or Err), locked is true from then on, every withdraw
\* returns Err(None) whatever the amount and available, leaving the account
\* unchanged, and a Withdrawal event on it is reported frozen.
C7_FrozenMonotonic ==
    /\ \A c \in charged :
          /\ c \in DOMAIN clients
          /\ clients[c].locked
          /\ \A a \in Amounts : withdraw(clients[c], a) = AccErrNone(clients[c])
    /\ (ev.kind = "Withdrawal" /\ ev.client_id \in charged)
          => report.kind = "Frozen"

\* A Withdrawal that the available funds would cover has just been refused
\* on an account on which a chargeback was invoked but did not complete (no
\* entry is ChargedBackFinal).
C7_Witness ==
    /\ ev.kind = "Withdrawal"
    /\ ev.client_id \in charged
    /\ report.kind = "Frozen"
    /\ Val(clients[ev.client_id].available) > 0
    /\ Val(clients[ev.client_id].available) >= Val(ev.amount)
    /\ \A t \in DOMAIN ledger : ledger[t].s # "ChargedBackFinal"

\* C8 as stated: a Dispute, Resolve or Chargeback whose transaction id is not
\* in the ledger is reported NotFound and changes neither the ledger nor the
\* account map (no account is created).
C8_UnknownTxChangesNothing ==
    [][(ev'.kind \in DisputeKinds /\ ev'.transaction_id \notin DOMAIN ledger)
       => /\ report'.kind = "NotFound"
          /\ ledger' = ledger
          /\ clients' = clients]_vars

\* C8 (amended): a Dispute, Resolve or Chargeback whose transaction id is not
\* in the ledger is reported NotFound, leaves the ledger unchanged and changes
\* no field of any existing account; the only change is that a zero-balance,
\* unlocked account is created for the event's client id if it had none.
C8_UnknownTxOnlyCreatesAccount ==
    [][(ev'.kind \in DisputeKinds /\ ev'.transaction_id \notin DOMAIN ledger)
       => /\ report'.kind = "NotFound"
          /\ ledger' = ledger
          /\ DOMAIN clients' = DOMAIN clients \cup {ev'.client_id}
          /\ \A c \in DOMAIN clients : clients'[c] = clients[c]
          /\ ev'.client_id \notin DOMAIN clients
                => clients'[ev'.client_id] = Client_new(ev'.client_id)]_vars

\* After a deposit by one client, an event of another client on an unknown
\* transaction id has been reported NotFound; both accounts exist and the
\* depositor still has its funds.
C8_Witness ==
    /\ nevents = 2
    /\ ev.kind \in DisputeKinds
    /\ report.kind = "NotFound"
    /\ Cardinality(DOMAIN clients) = 2
    /\ ev.transaction_id \notin DOMAIN ledger
    /\ clients[ev.client_id] = Client_new(ev.client_id)
    /\ \E c \in DOMAIN clients : Val(clients[c].available) > 0

\* C9: a Withdrawal that is rejected (available < amount, or account locked)
\* leaves the account's fields and the ledger unchanged, so a later Dispute,
\* Resolve or Chargeback on an id that is not in the ledger is NotFound; a
\* Withdrawal that is accepted is stored with state Committed.
C9_RejectedWithdrawalNotStored ==
    [][/\ ev'.kind = "Withdrawal" =>
            LET c == ev'.client_id
                t == ev'.transaction_id
                x == AccountOf(c)
            IN  IF x.locked \/ Val(x.available) < Val(ev'.amount)
                THEN /\ report'.kind \in {"Insufficient", "Frozen"}
                     /\ clients' = WithAccount(c)
                     /\ ledger' = ledger
                ELSE /\ report'.kind = "Ok"
                     /\ t \in DOMAIN ledger'
                     /\ ledger'[t].s = "Committed"
                     /\ ledger'[t].t = DisputableTransaction(c, t,
                            DisputableType("Withdrawal", ev'.amount))
       /\ (ev'.kind \in DisputeKinds /\ ev'.transaction_id \notin DOMAIN ledger)
            => (report'.kind = "NotFound" /\ ledger' = ledger)]_vars

\* A Withdrawal for more than the (non-zero) available funds has just been
\* rejected and its transaction id is not in the ledger.
C9_Witness ==
    /\ ev.kind = "Withdrawal"
    /\ report.kind = "Insufficient"
    /\ report.v = clients[ev.client_id].available
    /\ Val(clients[ev.client_id].available) > 0
    /\ ev.transaction_id \notin DOMAIN ledger
    /\ ledger # << >>

\* C10: a Resolve of a Disputed entry that succeeds at the account level
\* leaves the entry Committed, and a Dispute of a Committed entry succeeds
\* and leaves it Disputed, also when the entry has been through the cycle
\* before.
C10_ResolveClosesCycle ==
    [][/\ (/\ ev'.kind = "Resolve"
           /\ ev'.transaction_id \in DOMAIN ledger
           /\ ledger[ev'.transaction_id].s = "Disputed"
           /\ report'.kind = "Ok")
          => /\ ledger'[ev'.transaction_id].s = "Committed"
             /\ ev'.transaction_id \in recommitted'
       /\ (/\ ev'.kind = "Dispute"
           /\ ev'.transaction_id \in DOMAIN ledger
           /\ ledger[ev'.transaction_id].s = "Committed")
          => /\ report'.kind = "Ok"
             /\ ledger'[ev'.transaction_id].s = "Disputed"]_vars

\* A Dispute has just succeeded on an entry that had been disputed and
\* resolved before.
C10_Witness ==
    /\ ev.kind = "Dispute"
    /\ report.kind = "Ok"
    /\ ev.transaction_id \in recommitted
    /\ ledger[ev.transaction_id].s = "Disputed"

\* C11: a Chargeback of a Disputed entry that succeeds at the account level
\* leaves the entry ChargedBackFinal, and ChargedBackFinal is terminal under
\* update: every Dispute, Resolve or Chargeback on such an entry is reported
\* WrongState(ChargedBackFinal) and changes neither the ledger nor any field
\* of any account, and update refuses every requested state.
C11_ChargedBackFinalTerminal ==
    [][/\ (/\ ev'.kind = "Chargeback"
           /\ ev'.transaction_id \in DOMAIN ledger
           /\ ledger[ev'.transaction_id].s = "Disputed"
           /\ report'.kind = "Ok")
          => ledger'[ev'.transaction_id].s = "ChargedBackFinal"
       /\ (/\ ev'.kind \in DisputeKinds
           /\ ev'.transaction_id \in DOMAIN ledger
           /\ ledger[ev'.transaction_id].s = "ChargedBackFinal")
          => /\ report' = Report("WrongState", "ChargedBackFinal", zero)
             /\ ledger' = ledger
             /\ \A c \in DOMAIN clients : clients'[c] = clients[c]
       /\ \A t \in DOMAIN ledger, s \in State :
             ledger[t].s = "ChargedBackFinal"
                => LET u == update(ledger, t, s)
                   IN  ~u.ok /\ u.err = "WrongState"
                       /\ u.s = "ChargedBackFinal" /\ u.m = ledger]_vars

\* An event on a ChargedBackFinal entry has just been refused, on an account
\* that the completed chargeback had locked.
C11_Witness ==
    /\ ev.kind \in DisputeKinds
    /\ report = Report("WrongState", "ChargedBackFinal", zero)
    /\ ledger[ev.transaction_id].s = "ChargedBackFinal"
    /\ clients[ev.client_id].locked

\* a >= b as amounts.
AmountGe(a, b) ==
    \/ High(a) > High(b)
    \/ High(a) = High(b) /\ Val(a) >= Val(b)

\* d is exactly a - b as amounts (no wrap past 0 or past 2^64).
ExactDiff(d, a, b) ==
    /\ Val(d) = Val(a) - Val(b)
    /\ High(d) = High(a) - High(b)

\* s is exactly a + b as amounts (no wrap past 2^64).
ExactSum(x, a, b) ==
    /\ Val(x) = Val(a) + Val(b)
    /\ High(x) = High(a) + High(b)

\* C12: for normalized a and b, a - b is Ok(d) exactly when a >= b, with d
\* the exact difference, and otherwise Err(s) with the numeric value of s
\* (dollars * 10000 + cents) exactly b - a.
C12_SubExact ==
    dec.op = "sub" =>
        /\ dec.out.ok <=> AmountGe(dec.a, dec.b)
        /\ dec.out.ok => ExactDiff(dec.out.v, dec.a, dec.b)
        /\ ~dec.out.ok => ExactDiff(dec.out.v, dec.b, dec.a)

\* A subtraction has returned the shortfall through the arm for smaller
\* dollars and larger cents.
C12_Witness ==
    /\ dec.op = "sub"
    /\ ~dec.out.ok
    /\ dec.a.cents > dec.b.cents
    /\ cmp(dec.out.v, zero) = "Greater"

\* The fractional part of x is in [0, 9999].
Normalized(x) == x.cents \in 0..(Pow10 - 1)

\* C13: every Decimal produced by Decimal::new, parsing, addition or
\* subtraction (the Ok difference and the Err shortfall alike) has its
\* fractional part in [0, 9999].
C13_FractionInRange ==
    /\ dec.op \in {"new", "add", "sub"} => Normalized(dec.out.v)
    /\ (dec.op = "parse" /\ dec.out.ok) => Normalized(dec.out.v)

\* C14: a + b never fails (no abort, no wraparound past the integer width)
\* and is the exact normalized sum, the same in either order.
C14_AddNeverFails ==
    dec.op = "add" =>
        /\ ~dec.out.panic
        /\ ExactSum(dec.out.v, dec.a, dec.b)
        /\ Normalized(dec.out.v)
        /\ Add(dec.b, dec.a) = dec.out.v

\* C15: processing one event with client id c and transaction id t changes
\* the fields of no account other than c's (and creates no other account),
\* and changes the record or state of no ledger entry other than the entry
\* keyed by t (and adds no other entry).
C15_EventFrame ==
    [][/\ \A c \in DOMAIN clients :
            c # ev'.client_id =>
                (c \in DOMAIN clients' /\ clients'[c] = clients[c])
       /\ DOMAIN clients' \subseteq DOMAIN clients \cup {ev'.client_id}
       /\ \A t \in DOMAIN ledger :
            t # ev'.transaction_id =>
                (t \in DOMAIN ledger' /\ ledger'[t] = ledger[t])
       /\ DOMAIN ledger' \subseteq DOMAIN ledger \cup {ev'.transaction_id}]_vars

\* A client has just disputed a deposit that another client made: the funds
\* are held in the disputing client's account, the depositor still has its
\* available funds, and another ledger entry is still Committed.
C15_Witness ==
    /\ ev.kind = "Dispute"
    /\ report.kind = "Ok"
    /\ ev.transaction_id \in DOMAIN ledger
    /\ ledger[ev.transaction_id].s = "Disputed"
    /\ LET o == ledger[ev.transaction_id].t.client_id
       IN  /\ o # ev.client_id
           /\ Val(clients[o].available) > 0
    /\ Val(clients[ev.client_id].held) + Val(clients[ev.client_id].held_reserve) > 0
    /\ \E t \in DOMAIN ledger :
          t # ev.transaction_id /\ ledger[t].s = "Committed"

\* C16: CachedClient wrapping a MemoryClient returns the same result from
\* every access and every update as a bare MemoryClient given the same
\* sequence of store/access/update calls.
C16_CacheTransparent ==
    call.op \in {"access", "update"} => call.ret.cached = call.ret.bare

\* An update has just been refused with WrongState by both clients, on an
\* entry that an earlier update had moved out of Committed.
C16_Witness ==
    /\ call.op = "update"
    /\ ~call.ret.cached.ok
    /\ call.ret.cached.err = "WrongState"
    /\ call.ret.cached.s # "Committed"
    /\ call.ret.bare.err = "WrongState"

\* The bytes of str after its first '.'.
FractionOf(str) == SubSeq(str, find_dot(str) + 1, Len(str))

\* C17: for every normalized Decimal x, parsing the string that Display
\* writes for x yields x; and a string with fewer than 4 fractional digits
\* parses with the missing digits as trailing zeros ("1.2" is 1.2000,
\* ".002" is 0.0020).
C17_RoundTrip ==
    /\ dec.op = "reparse" => (dec.out.ok /\ dec.out.v = dec.a)
    /\ (/\ dec.op = "parse"
        /\ dec.out.ok
        /\ find_dot(dec.str) > 0
        /\ Len(FractionOf(dec.str)) < PRECISION
        /\ \A i \in 1..Len(FractionOf(dec.str)) : IsDigit(FractionOf(dec.str)[i]))
       => LET frac == FractionOf(dec.str)
              given == IF frac = << >> THEN 0 ELSE digits_value(frac)
          IN  dec.out.v.cents = given * 10 ^ (PRECISION - Len(frac))
    /\ (dec.op = "parse" /\ dec.str = bytes(<<"1", ".", "2">>))
       => dec.out = [ok |-> TRUE, v |-> Decimal(1, 2000)]
    /\ (dec.op = "parse" /\ dec.str = bytes(<<".", "0", "0", "2">>))
       => dec.out = [ok |-> TRUE, v |-> Decimal(0, 20)]

\* A Decimal with dollars just under 2^64 and a fractional part that needs
\* zero padding has been displayed, in 20 digits, a '.' and 4 digits, and
\* parsed back.
C17_Witness ==
    /\ dec.op = "reparse"
    /\ dec.a.dollars < 0
    /\ dec.a.cents \in 1..999
    /\ Len(dec.str) = Len(U64MaxDigits) + 1 + PRECISION
    /\ dec.out.ok

\* C18: in every reachable account state, deposit(amount) satisfies the
\* outstanding held_reserve first: with r = held_reserve before the call and
\* m = min(r, amount), held_reserve becomes r - m, held grows by m,
\* available grows by amount - m, and reserve and locked are unchanged,
\* whether or not the account is locked.
C18_DepositReserveFirst ==
    \A c \in DOMAIN clients, a \in Amounts :
        LET x == clients[c]
            y == deposit(x, a).c
            m == Min(Val(x.held_reserve), Val(a))
        IN  /\ deposit(x, a).ok
            /\ Val(y.held_reserve) = Val(x.held_reserve) - m
            /\ Val(y.held) = Val(x.held) + m
            /\ Val(y.available) = Val(x.available) + Val(a) - m
            /\ y.reserve = x.reserve
            /\ y.locked = x.locked
            /\ y.id = x.id

\* A deposit larger than the outstanding held_reserve has just cleared it:
\* the reserve went to held and only the rest of the amount became
\* available.
C18_Witness ==
    /\ ev.kind = "Deposit"
    /\ report.kind = "Ok"
    /\ Val(clients[ev.client_id].held_reserve) = 0
    /\ Val(clients[ev.client_id].held) > 0
    /\ Val(clients[ev.client_id].available) > 0
    /\ Val(clients[ev.client_id].available) < Val(ev.amount)

\* C19: in every reachable account state, dispute_deposit(amount) does not
\* fail and, with m = min(available, amount), moves m from available to
\* held and adds amount - m to held_reserve; held + held_reserve grows by
\* exactly amount, available stays at or above zero, and reserve and locked
\* are unchanged.
C19_DisputeDepositSplit ==
    \A c \in DOMAIN clients, a \in Amounts :
        LET x == clients[c]
            y == dispute_deposit(x, a).c
            m == Min(Val(x.available), Val(a))
        IN  /\ dispute_deposit(x, a).ok
            /\ Val(y.available) = Val(x.available) - m
            /\ Val(y.held) = Val(x.held) + m
            /\ Val(y.held_reserve) = Val(x.held_reserve) + Val(a) - m
            /\ Val(y.held) + Val(y.held_reserve)
                  = Val(x.held) + Val(x.held_reserve) + Val(a)
            /\ Val(y.available) >= 0
            /\ y.reserve = x.reserve
            /\ y.locked = x.locked
            /\ y.id = x.id

\* A deposit has just been disputed after part of it was withdrawn: what was
\* available is held, the rest of the amount is in held_reserve.
C19_Witness ==
    /\ ev.kind = "Dispute"
    /\ report.kind = "Ok"
    /\ ledger[ev.transaction_id].t.type_.kind = "Deposit"
    /\ clients[ev.client_id].available = zero
    /\ Val(clients[ev.client_id].held) > 0
    /\ Val(clients[ev.client_id].held_reserve) > 0
    /\ Val(clients[ev.client_id].held) + Val(clients[ev.client_id].held_reserve)
          = Val(ledger[ev.transaction_id].t.type_.amount)

\* C20: in every reachable account state, resolve_deposit(amount) succeeds
\* exactly when amount <= held + held_reserve; on success held_reserve is
\* reduced by m = min(held_reserve, amount), held by amount - m, and
\* available grows by amount - m; on failure it returns
\* Err(held + held_reserve) and changes nothing.
C20_ResolveDepositExact ==
    \A c \in DOMAIN clients, a \in Amounts :
        LET x == clients[c]
            r == resolve_deposit(x, a)
            y == r.c
            m == Min(Val(x.held_reserve), Val(a))
        IN  /\ r.ok <=> Val(a) <= Val(x.held) + Val(x.held_reserve)
            /\ r.ok =>
                  /\ Val(y.held_reserve) = Val(x.held_reserve) - m
                  /\ Val(y.held) = Val(x.held) - (Val(a) - m)
                  /\ Val(y.available) = Val(x.available) + Val(a) - m
                  /\ y.reserve = x.reserve
                  /\ y.locked = x.locked
                  /\ y.id = x.id
            /\ ~r.ok =>
                  /\ y = x
                  /\ ~r.none
                  /\ Val(r.err) = Val(x.held) + Val(x.held_reserve)

\* A disputed deposit that was partly backed by held_reserve has just been
\* resolved: less than its amount came back to available.
C20_Witness ==
    /\ ev.kind = "Resolve"
    /\ report.kind = "Ok"
    /\ ledger[ev.transaction_id].t.type_.kind = "Deposit"
    /\ Val(clients[ev.client_id].available) > 0
    /\ Val(clients[ev.client_id].available)
          < Val(ledger[ev.transaction_id].t.type_.amount)
    /\ Val(clients[ev.client_id].held_reserve) = 0
    /\ Val(clients[ev.client_id].held) = 0

\* C21: in every reachable account state and for every amount,
\* chargeback_deposit returns Ok exactly when resolve_deposit would, with the
\* same Err value otherwise, and on success leaves the same held and
\* held_reserve; available (and reserve) stay as they were and locked is
\* true after the call.
C21_ChargebackLikeResolve ==
    \A c \in DOMAIN clients, a \in Amounts :
        LET x == clients[c]
            cb == chargeback_deposit(x, a)
            rs == resolve_deposit(x, a)
        IN  /\ cb.ok = rs.ok
            /\ ~cb.ok => (cb.err = rs.err /\ cb.none = rs.none)
            /\ cb.ok => /\ cb.c.held = rs.c.held
                        /\ cb.c.held_reserve = rs.c.held_reserve
            /\ ~cb.ok => /\ cb.c.held = x.held
                         /\ cb.c.held_reserve = x.held_reserve
            /\ cb.c.available = x.available
            /\ cb.c.reserve = x.reserve
            /\ cb.c.id = x.id
            /\ cb.c.locked

\* A disputed deposit of a non-zero amount has just been charged back: the
\* account is locked, nothing is held any more and nothing came back to
\* available.
C21_Witness ==
    /\ ev.kind = "Chargeback"
    /\ report.kind = "Ok"
    /\ ledger[ev.transaction_id].s = "ChargedBackFinal"
    /\ ledger[ev.transaction_id].t.type_.kind = "Deposit"
    /\ Val(ledger[ev.transaction_id].t.type_.amount) > 0
    /\ clients[ev.client_id].locked
    /\ clients[ev.client_id].available = zero
    /\ clients[ev.client_id].held = zero
    /\ clients[ev.client_id].held_reserve = zero

\* C22: in every reachable account state and for every amount,
\* dispute_withdrawal adds amount to reserve and changes nothing else;
\* resolve_withdrawal on success only subtracts amount from reserve;
\* chargeback_withdrawal on success subtracts amount from reserve, adds
\* amount to available and sets locked; both fail exactly when
\* reserve < amount, with Err(reserve) and the balances unchanged.
C22_WithdrawalDisputeBookkeeping ==
    \A c \in DOMAIN clients, a \in Amounts :
        LET x == clients[c]
            d == dispute_withdrawal(x, a)
            rs == resolve_withdrawal(x, a)
            cb == chargeback_withdrawal(x, a)
        IN  /\ d.ok
            /\ Val(d.c.reserve) = Val(x.reserve) + Val(a)
            /\ d.c = [x EXCEPT !.reserve = d.c.reserve]
            /\ rs.ok <=> Val(x.reserve) >= Val(a)
            /\ rs.ok => /\ Val(rs.c.reserve) = Val(x.reserve) - Val(a)
                        /\ rs.c = [x EXCEPT !.reserve = rs.c.reserve]
            /\ ~rs.ok => (rs.c = x /\ ~rs.none /\ rs.err = x.reserve)
            /\ cb.ok <=> Val(x.reserve) >= Val(a)
            /\ cb.ok => /\ Val(cb.c.reserve) = Val(x.reserve) - Val(a)
                        /\ Val(cb.c.available) = Val(x.available) + Val(a)
                        /\ cb.c.locked
                        /\ cb.c = [x EXCEPT !.reserve = cb.c.reserve,
                                            !.available = cb.c.available,
                                            !.locked = TRUE]
            /\ ~cb.ok => /\ ~cb.none
                         /\ cb.err = x.reserve
                         /\ cb.c = [x EXCEPT !.locked = cb.c.locked]

\* A disputed withdrawal of a non-zero amount has just been charged back:
\* the reserve is relieved, the amount is available again and the account
\* is locked.
C22_Witness ==
    /\ ev.kind = "Chargeback"
    /\ report.kind = "Ok"
    /\ ledger[ev.transaction_id].s = "ChargedBackFinal"
    /\ ledger[ev.transaction_id].t.type_.kind = "Withdrawal"
    /\ ledger[ev.transaction_id].t.client_id = ev.client_id
    /\ Val(ledger[ev.transaction_id].t.type_.amount) > 0
    /\ clients[ev.client_id].locked
    /\ clients[ev.client_id].reserve = zero
    /\ Val(clients[ev.client_id].available)
          > Val(ledger[ev.transaction_id].t.type_.amount)

\* C23: a Deposit or accepted Withdrawal event whose transaction id is
\* already in the ledger replaces the stored record by its own (client,
\* kind, amount) and resets the state to Committed whatever it was; the
\* accounts are changed by the deposit or withdrawal alone: no other
\* account changes, and on the event's account reserve, locked and
\* held + held_reserve stay as they were.
C23_DuplicateIdOverwrites ==
    [][(/\ ev'.kind \in {"Deposit", "Withdrawal"}
        /\ report'.kind = "Ok"
        /\ ev'.transaction_id \in DOMAIN ledger)
       => LET c == ev'.client_id
              t == ev'.transaction_id
              x == AccountOf(c)
              y == clients'[c]
          IN  /\ ledger' = [ledger EXCEPT ![t] =
                    [t |-> DisputableTransaction(c, t,
                              DisputableType(ev'.kind, ev'.amount)),
                     s |-> "Committed"]]
              /\ \A o \in DOMAIN clients : o # c => clients'[o] = clients[o]
              /\ y.reserve = x.reserve
              /\ y.locked = x.locked
              /\ Val(y.held) + Val(y.held_reserve)
                    = Val(x.held) + Val(x.held_reserve)
              /\ ev'.kind = "Deposit" =>
                    Val(y.available) + Val(y.held)
                        = Val(x.available) + Val(x.held) + Val(ev'.amount)
              /\ ev'.kind = "Withdrawal" =>
                    /\ Val(y.available) = Val(x.available) - Val(ev'.amount)
                    /\ y.held = x.held
                    /\ y.held_reserve = x.held_reserve]_vars

\* A deposit has just reused the id of the only ledger entry while that
\* entry's funds were held: the entry is Committed with the new amount and
\* the funds are still held.
C23_Witness ==
    /\ ev.kind = "Deposit"
    /\ nevents = 3
    /\ DOMAIN ledger = {ev.transaction_id}
    /\ ledger[ev.transaction_id].s = "Committed"
    /\ ledger[ev.transaction_id].t.type_.amount = ev.amount
    /\ Val(clients[ev.client_id].held) > Val(ev.amount)
    /\ Val(clients[ev.client_id].held_reserve) = 0

\* C24: on a newly created account that has only received a deposit (no
\* chargeback was ever invoked on it), withdraw(0) returns the frozen error
\* Err(None).
C24_FreshDepositWithdrawFrozen ==
    \A c \in DOMAIN clients :
        (nevents = 1 /\ ev.kind = "Deposit" /\ ev.client_id = c /\ c \notin charged)
            => LET r == withdraw(clients[c], zero)
               IN  ~r.ok /\ r.none

\* C25: a Dispute, Resolve or Chargeback event on a stored transaction
\* changes only the account of the client that the stored record names:
\* every other account, the event's own client included, keeps its fields
\* (an account created by the event has the fields of a new account).
C25_OnlyOwnerAccountChanges ==
    [][(ev'.kind \in DisputeKinds /\ ev'.transaction_id \in DOMAIN ledger)
       => \A c \in DOMAIN clients' :
              c # ledger[ev'.transaction_id].t.client_id
                  => clients'[c] = AccountOf(c)]_vars

\* The sum of the amounts of the stored records of client c of the given
\* kind whose ledger state is Disputed, over the transaction ids in ts.
RECURSIVE DisputedSum(_, _, _)
DisputedSum(c, kind, ts) ==
    IF ts = {} THEN 0
    ELSE LET t == CHOOSE i \in ts : TRUE
             e == ledger[t]
             mine == /\ e.t.client_id = c
                     /\ e.t.type_.kind = kind
                     /\ e.s = "Disputed"
         IN  (IF mine THEN Val(e.t.type_.amount) ELSE 0)
                + DisputedSum(c, kind, ts \ {t})

\* C26: on well-formed input, after every processed event and for every
\* client, held + held_reserve is the sum of the amounts of that client's
\* deposits whose ledger state is Disputed, and reserve is the sum of the
\* amounts of that client's withdrawals whose ledger state is Disputed.
C26_HeldMatchesDisputed ==
    \A c \in DOMAIN clients :
        /\ Val(clients[c].held) + Val(clients[c].held_reserve)
              = DisputedSum(c, "Deposit", DOMAIN ledger)
        /\ Val(clients[c].reserve) = DisputedSum(c, "Withdrawal", DOMAIN ledger)

\* C27: in every reachable account state with available >= amount,
\* dispute_deposit(amount) immediately followed by a successful
\* resolve_deposit(amount) restores available, held and held_reserve to
\* their values before the dispute.
C27_DisputeResolveRoundTrip ==
    \A c \in DOMAIN clients, a \in Amounts :
        LET x == clients[c]
            d == dispute_deposit(x, a).c
            r == resolve_deposit(d, a)
        IN  (Val(x.available) >= Val(a) /\ r.ok)
                => /\ r.c.available = x.available
                   /\ r.c.held = x.held
                   /\ r.c.held_reserve = x.held_reserve

\* C27 (amended): in every reachable account state with available >= amount,
\* dispute_deposit(amount) immediately followed by resolve_deposit(amount)
\* succeeds and, with m = min(held_reserve, amount) taken before the
\* dispute, leaves available lower by m, held higher by m and held_reserve
\* lower by m; reserve and locked are unchanged, and with m = 0 the account
\* is exactly what it was.
C27_RoundTripUpToReserve ==
    \A c \in DOMAIN clients, a \in Amounts :
        LET x == clients[c]
            d == dispute_deposit(x, a).c
            r == resolve_deposit(d, a)
            m == Min(Val(x.held_reserve), Val(a))
        IN  Val(x.available) >= Val(a)
                => /\ r.ok
                   /\ Val(r.c.available) = Val(x.available) - m
                   /\ Val(r.c.held) = Val(x.held) + m
                   /\ Val(r.c.held_reserve) = Val(x.held_reserve) - m
                   /\ r.c.reserve = x.reserve
                   /\ r.c.locked = x.locked
                   /\ m = 0 => r.c = x

\* An account has funds available while a held_reserve is outstanding: a
\* dispute of a non-zero amount it can cover, then its resolve, does not
\* give the available funds back.
C27_Witness ==
    \E c \in DOMAIN clients, a \in Amounts :
        LET x == clients[c]
            r == resolve_deposit(dispute_deposit(x, a).c, a)
        IN  /\ Val(a) > 0
            /\ Val(x.available) >= Val(a)
            /\ Val(x.held_reserve) > 0
            /\ r.ok
            /\ Val(r.c.available) < Val(x.available)
            /\ Val(r.c.held) > Val(x.held)

====
